---------------------------- MODULE Spec2Model ----------------------------
(***************************************************************************)
(* A model of the soft-body physics world of src/src/world.rs (World and   *)
(* its Particle, Spring, Edge and ObjectDescriptor) as a state machine.    *)
(*                                                                         *)
(* Numbers.  The program computes in f64; the model computes in fixed      *)
(* point, with the same formulas in the same order:                        *)
(*   lengths and positions   in 1/U pixel        (U = 8)                   *)
(*   velocities              in 1/VU pixel/s     (VU = 16)                 *)
(*   accelerations           in pixel/s^2                                  *)
(*   time                    in ticks of 1/TicksPerSec s (10 microseconds) *)
(* A quotient and a square root are rounded to the nearest unit, as f64    *)
(* rounds to the nearest representable number; an `as usize` cast          *)
(* truncates.  A Vec2 is a record [x, y, nan]; nan marks the vector whose  *)
(* components are f64 NaN (0.0 / 0.0).                                     *)
(* Indices into Vec collections are 0-based as in the program; a TLA+      *)
(* sequence s holds the element of index i at s[i + 1].                    *)
(***************************************************************************)
EXTENDS Integers, Sequences, FiniteSets, TLC

(***************************************************************************)
(* Units and program constants                                             *)
(***************************************************************************)
U == 8
VU == 16
TicksPerSec == 100000

WIDTH == 1920 * U
HEIGHT == 1080 * U

Particle_R == 58
Particle_SPACING == 21 * U
Spring_KS == 6000
Spring_KD == 100
Edge_R == (3 * Particle_R) \div 2
Edge_FRICTION_PCT == 99
DT == 125
GRAVITY_Y == 350
STRETCH_LIMIT == 5

StepsPerSec == TicksPerSec \div DT

(***************************************************************************)
(* Arithmetic helpers                                                      *)
(***************************************************************************)
\* a / b truncated toward zero (b > 0)
Trunc(a, b) == IF a >= 0 THEN a \div b ELSE -((-a) \div b)

\* a / b rounded to the nearest integer (b > 0)
Div(a, b) ==
    LET m == IF a >= 0 THEN a ELSE -a
        q == IF 2 * (m % b) >= b THEN (m \div b) + 1 ELSE m \div b
    IN  IF a >= 0 THEN q ELSE -q

RECURSIVE IsqrtFrom(_, _, _)
IsqrtFrom(n, lo, hi) ==
    IF lo >= hi THEN lo
    ELSE LET mid == (lo + hi + 1) \div 2
         IN  IF mid * mid <= n THEN IsqrtFrom(n, mid, hi)
             ELSE IsqrtFrom(n, lo, mid - 1)

\* the square root of n >= 0, rounded to the nearest integer
Isqrt(n) ==
    LET f == IsqrtFrom(n, 0, 46340)
    IN  IF n - f * f > f THEN f + 1 ELSE f

\* (num / den) as usize, den > 0: truncated, negative values saturate to 0
Usize(num, den) == IF num < 0 THEN 0 ELSE num \div den

Clamp(v, lo, hi) == IF v < lo THEN lo ELSE IF v > hi THEN hi ELSE v

Abs(n) == IF n < 0 THEN -n ELSE n

\* ceil(num / den) for num >= 0, den > 0
Ceil(num, den) == (num + den - 1) \div den

(***************************************************************************)
(* Vec2                                                                    *)
(***************************************************************************)
Vec(x, y) == [x |-> x, y |-> y, nan |-> FALSE]
NaNVec == [x |-> 0, y |-> 0, nan |-> TRUE]
Vec_null == Vec(0, 0)

VAdd(a, b) == IF a.nan \/ b.nan THEN NaNVec ELSE Vec(a.x + b.x, a.y + b.y)
VSub(a, b) == IF a.nan \/ b.nan THEN NaNVec ELSE Vec(a.x - b.x, a.y - b.y)
VNeg(a) == IF a.nan THEN NaNVec ELSE Vec(-a.x, -a.y)
\* a * (num / den), den > 0; a quotient by zero gives NaN (with the
\* numerators used here: 0.0 / 0.0)
VScale(a, num, den) ==
    IF a.nan \/ den = 0 THEN NaNVec
    ELSE Vec(Div(a.x * num, den), Div(a.y * num, den))
\* a * b / c without forming the product a * b (c > 0)
MulDiv(a, b, c) ==
    LET q == Trunc(a, c)
        r == a - q * c
    IN  q * b + Div(r * b, c)
\* a * (num / den) for a large num
VMulDiv(a, num, den) ==
    IF a.nan \/ den = 0 THEN NaNVec
    ELSE Vec(MulDiv(num, a.x, den), MulDiv(num, a.y, den))
VDot(a, b) == a.x * b.x + a.y * b.y
VLenSqr(a) == a.x * a.x + a.y * a.y
\* derived PartialEq on f64 components: NaN is equal to nothing
VEq(a, b) == ~a.nan /\ ~b.nan /\ a.x = b.x /\ a.y = b.y


VARIABLES
    particles,   \* World::particles : Vec<Particle>
    springs,     \* World::springs   : Vec<Spring>
    boundaries,  \* World::boundaries: Vec<usize>
    objects,     \* World::objects   : Vec<ObjectDescriptor>
    edges,       \* World::edges     : Vec<Edge>
    buckets,     \* World::buckets, the non-empty part: the pushes <<z, i>>
                 \* (index i pushed on bucket z) in the order they were made
    dt_acc,      \* World::dt_acc, in ticks
    pc,          \* where the control is: "idle" (outside update), a phase
                 \* of a sub-step of update(), or "panicked"
    last,        \* the last call that returned, with what it returned
    pre,         \* the world as it was before the last spawn_rect that
                 \* succeeded, while nothing but the remove_last that
                 \* follows it has been called since
    call,        \* the running call of update(): the accumulator and the
                 \* particles it was called with, the sub-steps it has
                 \* completed, the particles at the start of its current
                 \* sub-step
    started,     \* number of sub-steps started so far
    simulate,      \* App::state.simulate
    selected_edge, \* App::selected_edge : Option<(usize, EdgePoint)>
    rect_start,    \* App::rect_start : Option<Vec2>, in pixels
    line_start,    \* App::line_start : Option<Vec2>, in pixels
    mouse,         \* the MouseState that begin_frame returned: the position
                   \* in pixels and whether the left button is pressed
    lctrl,         \* lctrl of handle_events: whether the left Ctrl key was
                   \* pressed when the events of this frame were polled
    frame,         \* where App::run is in the body of its loop
    savefile,      \* the State that SAVEFILE holds, if any
    preview        \* what handle_new_rect drew in this frame, if anything

world == <<particles, springs, boundaries, objects, edges, buckets, dt_acc>>
\* the fields of App, its save file and what it has drawn
app == <<simulate, selected_edge, rect_start, line_start, mouse, lctrl,
         frame, savefile, preview>>
vars == <<particles, springs, boundaries, objects, edges, buckets, dt_acc,
          pc, last, pre, call, started, simulate, selected_edge, rect_start,
          line_start, mouse, lctrl, frame, savefile, preview>>

(***************************************************************************)
(* Particle, Spring, Edge, ObjectDescriptor                                *)
(***************************************************************************)
Particle_new(x, y) == [pos |-> Vec(x, y), vel |-> Vec_null, acc |-> Vec_null]

Spring_new(a, b, l0) == [a |-> a, b |-> b, l0 |-> l0]

\* Particle::DIAG_SQR.sqrt()
DIAG == Isqrt(2 * Particle_SPACING * Particle_SPACING)

\* Edge::new storing the end point where the direction belongs
Edge_new_line_is_end(start, end) ==
    [start |-> start, line |-> end, len_sqr |-> VLenSqr(end)]

Edge_new(start, end) ==
    LET line == VSub(end, start)
    IN  [start |-> start, line |-> line, len_sqr |-> VLenSqr(line)]

Edge_get_start(e) == e.start
Edge_get_end(e) == VAdd(e.start, e.line)

\* set_start with the direction left as it was
Edge_set_start_keeps_line(e, start) ==
    [start |-> start, line |-> e.line, len_sqr |-> VLenSqr(e.line)]

\* self.line += self.start - start; the length; self.start = start
Edge_set_start(e, start) ==
    LET line == VAdd(e.line, VSub(e.start, start))
    IN  [start |-> start, line |-> line, len_sqr |-> VLenSqr(line)]

\* self.line = end - self.start; the length
Edge_set_end(e, end) ==
    LET line == VSub(end, e.start)
    IN  [start |-> e.start, line |-> line, len_sqr |-> VLenSqr(line)]

ObjectDescriptor_new(ps, pe, ss, se, bs, be) ==
    [particle_start |-> ps, particle_end |-> pe,
     spring_start |-> ss, spring_end |-> se,
     boundary_start |-> bs, boundary_end |-> be]

(***************************************************************************)
(* The return value of a call                                              *)
(***************************************************************************)
Ok == [ok |-> TRUE, err |-> <<>>, msg |-> ""]
Err(e) == [ok |-> FALSE, err |-> e, msg |-> ""]
ErrMsg(m) == [ok |-> FALSE, err |-> <<>>, msg |-> m]
Returned(op, args, ret) == [op |-> op, args |-> args, ret |-> ret]

NoSnapshot == [taken |-> FALSE, particles |-> <<>>, springs |-> <<>>,
               boundaries |-> <<>>, objects |-> <<>>, edges |-> <<>>,
               dt_acc |-> 0]
Snapshot == [taken |-> TRUE, particles |-> particles, springs |-> springs,
             boundaries |-> boundaries, objects |-> objects, edges |-> edges,
             dt_acc |-> dt_acc]

NoCall == [running |-> FALSE, acc0 |-> 0, done |-> 0, at_call |-> <<>>,
           at_start |-> <<>>]

\* truncate taking len for the index of the last element kept
Truncate_keeps_one(s, len) ==
    IF len + 1 >= Len(s) THEN s ELSE SubSeq(s, 1, len + 1)

\* Vec::truncate(len)
Truncate(s, len) == IF len >= Len(s) THEN s ELSE SubSeq(s, 1, len)

(***************************************************************************)
(* World::new                                                              *)
(***************************************************************************)
\* Option::None
None == <<>>
\* Option::Some(v)
Some(v) == <<v>>

\* the fields of App after App::new(), before the first frame
App_new ==
    /\ simulate = FALSE
    /\ selected_edge = None
    /\ rect_start = None
    /\ line_start = None
    /\ mouse = [pos |-> <<0, 0>>, left |-> FALSE]
    /\ lctrl = FALSE
    /\ frame = "begin"
    /\ savefile = None
    /\ preview = None

Init ==
    /\ App_new
    /\ particles = <<>>
    /\ springs = <<>>
    /\ boundaries = <<>>
    /\ objects = <<>>
    /\ edges = <<>>
    /\ buckets = <<>>
    /\ dt_acc = 0
    /\ pc = "idle"
    /\ last = Returned("new", <<>>, Ok)
    /\ pre = NoSnapshot
    /\ call = NoCall
    /\ started = 0

(***************************************************************************)
(* World::add_edge                                                         *)
(***************************************************************************)
can_add_edge(start, end) == ~VEq(start, end)

add_edge(start, end) ==
    /\ pc = "idle"
    /\ IF ~can_add_edge(start, end)
       THEN /\ last' = Returned("add_edge",
                                <<start.x, start.y, end.x, end.y>>,
                                ErrMsg("cant add edge, length cannot be 0"))
            /\ UNCHANGED edges
       ELSE /\ edges' = Append(edges, Edge_new(start, end))
            /\ last' = Returned("add_edge",
                                <<start.x, start.y, end.x, end.y>>, Ok)
    /\ pre' = NoSnapshot
    /\ UNCHANGED <<particles, springs, boundaries, objects, buckets, dt_acc,
                   pc, call, started>>

(***************************************************************************)
(* World::spawn_rect                                                       *)
(***************************************************************************)
\* can_spawn_rect with the height test off by one
can_spawn_rect_h1(w, h) == w >= 2 /\ h >= 1

can_spawn_rect(w, h) == w >= 2 /\ h >= 2

\* the springs of a cell, the second diagonal pushed in the first column too
CellSprings_no_left_guard(i, j, w, h, ind) ==
    (IF i < w - 1 THEN <<Spring_new(ind, ind + h, Particle_SPACING)>>
     ELSE <<>>)
    \o (IF j < h - 1 THEN <<Spring_new(ind, ind + 1, Particle_SPACING)>>
        ELSE <<>>)
    \o (IF i < w - 1 /\ j < h - 1 THEN <<Spring_new(ind, ind + h + 1, DIAG)>>
        ELSE <<>>)
    \o (IF j < h - 1 THEN <<Spring_new(ind, ind - h + 1, DIAG)>>
        ELSE <<>>)

\* the springs pushed for the grid cell (i, j), whose particle has index ind
CellSprings(i, j, w, h, ind) ==
    (IF i < w - 1 THEN <<Spring_new(ind, ind + h, Particle_SPACING)>>
     ELSE <<>>)
    \o (IF j < h - 1 THEN <<Spring_new(ind, ind + 1, Particle_SPACING)>>
        ELSE <<>>)
    \o (IF i < w - 1 /\ j < h - 1 THEN <<Spring_new(ind, ind + h + 1, DIAG)>>
        ELSE <<>>)
    \o (IF i > 0 /\ j < h - 1 THEN <<Spring_new(ind, ind - h + 1, DIAG)>>
        ELSE <<>>)

\* the grid with the two coordinates of a particle exchanged
RectParticles_transposed(w, h, x, y) ==
    [k \in 1..(w * h) |->
        Particle_new(((k - 1) % h) * Particle_SPACING + x,
                     ((k - 1) \div h) * Particle_SPACING + y)]

\* the particles of the grid, column by column: for i in 0..w, for j in 0..h
RectParticles(w, h, x, y) ==
    [k \in 1..(w * h) |->
        Particle_new(((k - 1) \div h) * Particle_SPACING + x,
                     ((k - 1) % h) * Particle_SPACING + y)]

RECURSIVE RectSprings(_, _, _, _)
\* the springs pushed from grid cell number k (0-based, column-major) on
RectSprings(k, w, h, p_start) ==
    IF k >= w * h THEN <<>>
    ELSE CellSprings(k \div h, k % h, w, h, p_start + k)
         \o RectSprings(k + 1, w, h, p_start)

\* the four loops, the third one running on into the corner the fourth
\* starts from
RectBoundaries_corner_twice(w, h, p_start) ==
    [n \in 1..w |-> p_start + (n - 1) * h]
    \o [m \in 1..(h - 1) |-> p_start + (w - 1) * h + m]
    \o [m \in 1..(w - 1) |-> p_start + ((w - 1 - m) + 1) * h - 1]
    \o [m \in 1..(h - 1) |-> p_start + (h - m)]

\* the four loops, the third one not reversed
RectBoundaries_third_ascending(w, h, p_start) ==
    [n \in 1..w |-> p_start + (n - 1) * h]
    \o [m \in 1..(h - 1) |-> p_start + (w - 1) * h + m]
    \o [m \in 1..(w - 2) |-> p_start + (m + 1) * h - 1]
    \o [m \in 1..(h - 1) |-> p_start + (h - m)]

\* the four loops that push the boundary indices
RectBoundaries(w, h, p_start) ==
    [n \in 1..w |-> p_start + (n - 1) * h]
    \o [m \in 1..(h - 1) |-> p_start + (w - 1) * h + m]
    \o [m \in 1..(w - 2) |-> p_start + ((w - 1 - m) + 1) * h - 1]
    \o [m \in 1..(h - 1) |-> p_start + (h - m)]

spawn_rect(w, h, x, y) ==
    /\ pc = "idle"
    /\ IF ~can_spawn_rect(w, h)
       THEN /\ last' = Returned("spawn_rect", <<w, h, x, y>>, Err(<<w, h>>))
            /\ pre' = NoSnapshot
            /\ UNCHANGED <<particles, springs, boundaries, objects>>
       ELSE LET p_start == Len(particles)
                s_start == Len(springs)
                b_start == Len(boundaries)
            IN  /\ particles' = particles \o RectParticles(w, h, x, y)
                /\ springs' = springs \o RectSprings(0, w, h, p_start)
                /\ boundaries' = boundaries \o RectBoundaries(w, h, p_start)
                /\ objects' = Append(objects,
                       ObjectDescriptor_new(p_start, Len(particles'),
                                            s_start, Len(springs'),
                                            b_start, Len(boundaries')))
                /\ last' = Returned("spawn_rect", <<w, h, x, y>>, Ok)
                /\ pre' = Snapshot
    /\ UNCHANGED <<edges, buckets, dt_acc, pc, call, started>>

(***************************************************************************)
(* World::remove_last, World::clear, World::end_frame                      *)
(***************************************************************************)
\* remove_last forgetting to truncate the springs
remove_last_keeps_springs ==
    /\ pc = "idle"
    /\ IF objects # <<>>
       THEN LET obj == objects[Len(objects)]
            IN  /\ objects' = SubSeq(objects, 1, Len(objects) - 1)
                /\ particles' = Truncate(particles, obj.particle_start)
                /\ boundaries' = Truncate(boundaries, obj.boundary_start)
                /\ UNCHANGED springs
       ELSE UNCHANGED <<particles, springs, boundaries, objects>>
    /\ last' = Returned("remove_last", <<Len(objects)>>, Ok)
    /\ pre' = IF last.op = "spawn_rect" THEN pre ELSE NoSnapshot
    /\ UNCHANGED <<edges, buckets, dt_acc, pc, call, started>>

\* remove_last popping an edge when there is no body to pop
remove_last_pops_edge ==
    /\ pc = "idle"
    /\ IF objects # <<>>
       THEN LET obj == objects[Len(objects)]
            IN  /\ objects' = SubSeq(objects, 1, Len(objects) - 1)
                /\ particles' = Truncate(particles, obj.particle_start)
                /\ springs' = Truncate(springs, obj.spring_start)
                /\ boundaries' = Truncate(boundaries, obj.boundary_start)
                /\ UNCHANGED edges
       ELSE /\ edges' = Truncate(edges, Len(edges) - 1)
            /\ UNCHANGED <<particles, springs, boundaries, objects>>
    /\ last' = Returned("remove_last", <<Len(objects)>>, Ok)
    /\ pre' = IF last.op = "spawn_rect" THEN pre ELSE NoSnapshot
    /\ UNCHANGED <<buckets, dt_acc, pc, call, started>>

\* `last` records the number of bodies the call found
remove_last ==
    /\ pc = "idle"
    /\ IF objects # <<>>
       THEN LET obj == objects[Len(objects)]
            IN  /\ objects' = SubSeq(objects, 1, Len(objects) - 1)
                /\ particles' = Truncate(particles, obj.particle_start)
                /\ springs' = Truncate(springs, obj.spring_start)
                /\ boundaries' = Truncate(boundaries, obj.boundary_start)
       ELSE UNCHANGED <<particles, springs, boundaries, objects>>
    /\ last' = Returned("remove_last", <<Len(objects)>>, Ok)
    /\ pre' = IF last.op = "spawn_rect" THEN pre ELSE NoSnapshot
    /\ UNCHANGED <<edges, buckets, dt_acc, pc, call, started>>

\* clear forgetting to clear the boundary indices
clear_keeps_boundaries ==
    /\ pc = "idle"
    /\ particles' = <<>>
    /\ springs' = <<>>
    /\ objects' = <<>>
    /\ last' = Returned("clear", <<Len(objects)>>, Ok)
    /\ pre' = NoSnapshot
    /\ UNCHANGED <<boundaries, edges, buckets, dt_acc, pc, call, started>>

\* `last` records the number of bodies the call found
clear ==
    /\ pc = "idle"
    /\ particles' = <<>>
    /\ springs' = <<>>
    /\ boundaries' = <<>>
    /\ objects' = <<>>
    /\ last' = Returned("clear", <<Len(objects)>>, Ok)
    /\ pre' = NoSnapshot
    /\ UNCHANGED <<edges, buckets, dt_acc, pc, call, started>>

\* the sequence s without its element number n (counted from 0)
RemoveAt(s, n) ==
    [k \in 1..(Len(s) - 1) |-> IF k <= n THEN s[k] ELSE s[k + 1]]

\* remove_edge(n): Vec::remove panics when n is not an index of the edges
remove_edge(n) ==
    /\ pc = "idle"
    /\ IF n < Len(edges)
       THEN /\ edges' = RemoveAt(edges, n)
            /\ last' = Returned("remove_edge", <<n>>, Ok)
            /\ pc' = pc
       ELSE /\ pc' = "panicked"
            /\ UNCHANGED <<edges, last>>
    /\ pre' = NoSnapshot
    /\ UNCHANGED <<particles, springs, boundaries, objects, buckets, dt_acc,
                   call, started>>

end_frame(dt) ==
    /\ pc = "idle"
    /\ dt_acc' = dt_acc + dt
    /\ last' = Returned("end_frame", <<dt>>, Ok)
    /\ pre' = NoSnapshot
    /\ UNCHANGED <<particles, springs, boundaries, objects, edges, buckets,
                   pc, call, started>>


(***************************************************************************)
(* Particle::collide, Particle::integrate                                  *)
(***************************************************************************)
\* self.collide(other): the pair <<self, other>> afterwards
Particle_collide(self, other) ==
    LET diff == VSub(other.pos, self.pos)
        diff_len_sqr == VLenSqr(diff)
    IN  IF diff.nan \/ ~(4 * Particle_R * Particle_R >= diff_len_sqr)
        THEN <<self, other>>
        ELSE LET diff_len == Isqrt(diff_len_sqr)
                 \* 0.5 * (2R - diff_len) * (diff / diff_len)
                 offset == VScale(diff, 2 * Particle_R - diff_len,
                                  2 * diff_len)
                 spos == VSub(self.pos, offset)
                 opos == VAdd(other.pos, offset)
                 \* diff_norm = n / 2R
                 n == VSub(opos, spos)
                 k == VDot(self.vel, n) - VDot(other.vel, n)
                 vel_offset ==
                     IF n.nan \/ self.vel.nan \/ other.vel.nan THEN NaNVec
                     ELSE VMulDiv(n, k, 4 * Particle_R * Particle_R)
             IN  <<[self EXCEPT !.pos = spos,
                                !.vel = VSub(self.vel, vel_offset)],
                   [other EXCEPT !.pos = opos,
                                 !.vel = VAdd(other.vel, vel_offset)]>>

\* integrate leaving the acceleration as it is
Particle_integrate_keeps_acc(p) ==
    [pos |-> VAdd(p.pos,
                  VAdd(VScale(p.vel, U, VU * StepsPerSec),
                       VScale(p.acc, U, 2 * StepsPerSec * StepsPerSec))),
     vel |-> VAdd(p.vel, VScale(p.acc, VU, StepsPerSec)),
     acc |-> p.acc]

\* integrate(DT)
Particle_integrate(p) ==
    [pos |-> VAdd(p.pos,
                  VAdd(VScale(p.vel, U, VU * StepsPerSec),
                       VScale(p.acc, U, 2 * StepsPerSec * StepsPerSec))),
     vel |-> VAdd(p.vel, VScale(p.acc, VU, StepsPerSec)),
     acc |-> Vec_null]

(***************************************************************************)
(* Edge::collide                                                           *)
(***************************************************************************)
\* edge.collide(particle): the particle afterwards
Edge_collide(e, particle) ==
    LET line2 == VSub(particle.pos, e.start)
        t_num == Clamp(VDot(e.line, line2), 0, e.len_sqr)
        closest_point ==
            IF line2.nan THEN NaNVec
            ELSE VAdd(e.start, VMulDiv(e.line, t_num, e.len_sqr))
        diff == VSub(particle.pos, closest_point)
        diff_len_sqr == VLenSqr(diff)
        reach == Particle_R + Edge_R
    IN  IF diff.nan \/ ~(diff_len_sqr <= reach * reach)
        THEN particle
        ELSE LET diff_len == Isqrt(diff_len_sqr)
                 pos == VAdd(particle.pos,
                             VScale(diff, reach - diff_len, diff_len))
                 \* tangent = n / reach
                 n == VSub(pos, closest_point)
                 dp_n == VDot(particle.vel, n)
                 vel == IF n.nan \/ particle.vel.nan THEN NaNVec
                        ELSE VScale(VSub(particle.vel,
                                         VMulDiv(n, 3 * dp_n,
                                                 2 * reach * reach)),
                                    Edge_FRICTION_PCT, 100)
             IN  [particle EXCEPT !.pos = pos, !.vel = vel]

(***************************************************************************)
(* World::grid_pos, World::grid_idx                                        *)
(***************************************************************************)
\* GRID as usize, where GRID = HEIGHT / (2 R)
GRID_usize == HEIGHT \div (2 * Particle_R)
\* SQR!(GRID) as usize
NBuckets == (HEIGHT * HEIGHT) \div (4 * Particle_R * Particle_R)

grid_pos(particle) ==
    IF particle.pos.nan THEN <<0, 0>>
    ELSE <<Usize(particle.pos.x * HEIGHT, WIDTH * 2 * Particle_R),
           Usize(particle.pos.y, 2 * Particle_R)>>

grid_idx(x, y) == Clamp(x + y * GRID_usize, 0, NBuckets - 1)

\* the indices held by bucket z, in the order they were pushed
Bucket(bs, z) ==
    LET hits == SelectSeq(bs, LAMBDA e : e[1] = z)
    IN  [k \in 1..Len(hits) |-> hits[k][2]]

(***************************************************************************)
(* World::update_spring                                                    *)
(***************************************************************************)
\* update_spring reporting the limit it tested against, not the length
update_spring_reports_limit(spring, ps) ==
    LET p1 == ps[spring.a + 1]
        p2 == ps[spring.b + 1]
        diff == VSub(p2.pos, p1.pos)
        diff_len == IF diff.nan THEN 0 ELSE Isqrt(VLenSqr(diff))
    IN  IF ~diff.nan /\ diff_len > spring.l0 * STRETCH_LIMIT
        THEN [ok |-> FALSE, len |-> spring.l0 * STRETCH_LIMIT, ps |-> ps]
        ELSE LET dl == diff_len - spring.l0
                 dist_factor == IF dl >= 0 THEN dl ELSE U
                 fs == Div(dist_factor * Div(dl * Spring_KS, U), U)
                 dvel == VSub(p2.vel, p1.vel)
                 fd == Div(Div(VDot(diff, dvel), diff_len) * Spring_KD, VU)
                 f == IF diff.nan \/ dvel.nan \/ diff_len = 0 THEN NaNVec
                      ELSE VMulDiv(diff, fs + fd, diff_len)
                 ps1 == [ps EXCEPT ![spring.a + 1].acc = VAdd(@, f)]
                 ps2 == [ps1 EXCEPT ![spring.b + 1].acc = VSub(@, f)]
             IN  [ok |-> TRUE, len |-> 0, ps |-> ps2]

\* [ok, len, ps]: Err(len), or Ok with the particles after the force
update_spring(spring, ps) ==
    LET p1 == ps[spring.a + 1]
        p2 == ps[spring.b + 1]
        diff == VSub(p2.pos, p1.pos)
        diff_len == IF diff.nan THEN 0 ELSE Isqrt(VLenSqr(diff))
    IN  IF ~diff.nan /\ diff_len > spring.l0 * STRETCH_LIMIT
        THEN [ok |-> FALSE, len |-> diff_len, ps |-> ps]
        ELSE LET dl == diff_len - spring.l0
                 dist_factor == IF dl >= 0 THEN dl ELSE U
                 fs == Div(dist_factor * Div(dl * Spring_KS, U), U)
                 dvel == VSub(p2.vel, p1.vel)
                 fd == Div(Div(VDot(diff, dvel), diff_len) * Spring_KD, VU)
                 f == IF diff.nan \/ dvel.nan \/ diff_len = 0 THEN NaNVec
                      ELSE VMulDiv(diff, fs + fd, diff_len)
                 ps1 == [ps EXCEPT ![spring.a + 1].acc = VAdd(@, f)]
                 ps2 == [ps1 EXCEPT ![spring.b + 1].acc = VSub(@, f)]
             IN  [ok |-> TRUE, len |-> 0, ps |-> ps2]

RECURSIVE UpdateSprings_no_abort(_, _, _)
\* the loop going on through the remaining springs after an Err, and
\* reporting the Err at the end
UpdateSprings_no_abort(ss, k, ps) ==
    IF k > Len(ss) THEN [ok |-> TRUE, len |-> 0, ps |-> ps]
    ELSE LET r == update_spring(ss[k], ps)
             rest == UpdateSprings_no_abort(ss, k + 1, r.ps)
         IN  IF r.ok THEN rest
             ELSE [ok |-> FALSE, len |-> r.len, ps |-> rest.ps]

RECURSIVE UpdateSprings(_, _, _)
\* for spring in &self.springs { update_spring(..)? } from spring number k on
UpdateSprings(ss, k, ps) ==
    IF k > Len(ss) THEN [ok |-> TRUE, len |-> 0, ps |-> ps]
    ELSE LET r == update_spring(ss[k], ps)
         IN  IF r.ok THEN UpdateSprings(ss, k + 1, r.ps) ELSE r

(***************************************************************************)
(* The collision and integration loop of World::update                     *)
(***************************************************************************)
\* the buckets particle i visits, in order
StencilCells(x, y) ==
    <<grid_idx(x, y)>>
    \o (IF y > 0 THEN <<grid_idx(x, y - 1)>> ELSE <<>>)
    \o (IF y > 0 /\ x > 0 THEN <<grid_idx(x - 1, y - 1)>> ELSE <<>>)
    \o (IF x > 0 THEN <<grid_idx(x - 1, y)>> ELSE <<>>)
    \o (IF x > 0 /\ y < GRID_usize THEN <<grid_idx(x - 1, y + 1)>> ELSE <<>>)

\* the indices particle i reads from the buckets, in order
StencilIndices(bs, x, y) ==
    LET cells == StencilCells(x, y)
        RECURSIVE Cat(_)
        Cat(c) == IF c > Len(cells) THEN <<>>
                  ELSE Bucket(bs, cells[c]) \o Cat(c + 1)
    IN  Cat(1)

RECURSIVE CollideWith(_, _, _, _, _)
\* collide_bucket over the indices js from position k on: [ps, particle,
\* panic]; an index past the end of the particles is an out-of-bounds panic
CollideWith(ps, particle, i, js, k) ==
    IF k > Len(js)
    THEN [ps |-> ps, particle |-> particle, panic |-> FALSE]
    ELSE LET j == js[k]
         IN  IF i = j THEN CollideWith(ps, particle, i, js, k + 1)
             ELSE IF j >= Len(ps)
             THEN [ps |-> ps, particle |-> particle, panic |-> TRUE]
             ELSE LET c == Particle_collide(particle, ps[j + 1])
                  IN  CollideWith([ps EXCEPT ![j + 1] = c[2]], c[1],
                                  i, js, k + 1)

\* self.particles[i].acc += GRAVITY; self.particles[i].integrate(DT), after
\* the collisions r of particle i: [ps, panic]
GravityAndIntegrate(r, i) ==
    IF r.panic THEN [ps |-> r.ps, panic |-> TRUE]
    ELSE [ps |-> [r.ps EXCEPT
                     ![i + 1] = Particle_integrate(
                                    [r.particle EXCEPT
                                        !.acc = VAdd(@, Vec(0, GRAVITY_Y))])],
          panic |-> FALSE]

\* the body of for i in 0..self.particles.len() { .. } for one i: the
\* collisions of particle i with its stencil, gravity and its integration:
\* [ps, panic]
CollideParticle(ps, bs, i) ==
    GravityAndIntegrate(
        CollideWith(ps, ps[i + 1], i,
                    StencilIndices(bs, grid_pos(ps[i + 1])[1],
                                   grid_pos(ps[i + 1])[2]), 1),
        i)

RECURSIVE CollideAndIntegrate(_, _, _)
\* for i in 0..self.particles.len() { .. } from particle i on: [ps, panic]
CollideAndIntegrate(ps, bs, i) ==
    IF i >= Len(ps) THEN [ps |-> ps, panic |-> FALSE]
    ELSE LET s == CollideParticle(ps, bs, i)
         IN  IF s.panic THEN s ELSE CollideAndIntegrate(s.ps, bs, i + 1)

RECURSIVE CollideEdges(_, _, _)
\* for edge in &self.edges { edge.collide(particle) } from edge number k on
CollideEdges(es, k, particle) ==
    IF k > Len(es) THEN particle
    ELSE CollideEdges(es, k + 1, Edge_collide(es[k], particle))

RECURSIVE BoundaryEdges(_, _, _, _)
\* for i in &self.boundaries { .. } from boundary entry k on
BoundaryEdges(ps, bnd, es, k) ==
    IF k > Len(bnd) THEN ps
    ELSE BoundaryEdges(
             [ps EXCEPT ![bnd[k] + 1] = CollideEdges(es, 1, @)],
             bnd, es, k + 1)

\* the pushes of the first loop of a sub-step
HashPushes(ps) ==
    [k \in 1..Len(ps) |->
        LET g == grid_pos(ps[k]) IN <<grid_idx(g[1], g[2]), k - 1>>]


(***************************************************************************)
(* World::update, one action per phase of a sub-step.  No other operation  *)
(* runs while update() does: the world is owned by one thread.             *)
(***************************************************************************)
\* update() returns ret, having been called with the accumulator at acc0 and
\* having completed `done` sub-steps
Return(ret, acc0, done) ==
    /\ pc' = "idle"
    /\ call' = NoCall
    /\ last' = Returned("update", <<acc0, done>>, ret)

\* the call, and the first test of `while self.dt_acc >= DT`
update_call ==
    /\ pc = "idle"
    /\ pre' = NoSnapshot
    /\ IF dt_acc >= DT
       THEN /\ pc' = "hash"
            /\ call' = [running |-> TRUE, acc0 |-> dt_acc, done |-> 0,
                        at_call |-> particles, at_start |-> particles]
            /\ UNCHANGED last
       ELSE Return(Ok, dt_acc, 0)
    /\ UNCHANGED <<particles, springs, boundaries, objects, edges, buckets,
                   dt_acc, started>>

\* for (i, particle) in self.particles.iter().enumerate() { .. push(i) }
hash_fill ==
    /\ pc = "hash"
    /\ buckets' = buckets \o HashPushes(particles)
    /\ pc' = "springs"
    /\ started' = started + 1
    /\ UNCHANGED <<particles, springs, boundaries, objects, edges, dt_acc,
                   last, pre, call>>

\* the spring loop integrating every particle as soon as the forces are in
spring_forces_integrates ==
    /\ pc = "springs"
    /\ LET r == UpdateSprings(springs, 1, particles)
       IN  IF r.ok
           THEN /\ particles' = [i \in 1..Len(r.ps) |->
                                    Particle_integrate(r.ps[i])]
                /\ pc' = "collide"
                /\ UNCHANGED <<last, call>>
           ELSE /\ particles' = r.ps
                /\ Return(Err(<<r.len>>), call.acc0, call.done)
    /\ UNCHANGED <<springs, boundaries, objects, edges, buckets, dt_acc,
                   pre, started>>

\* for spring in &self.springs { Self::update_spring(..)?; }
spring_forces ==
    /\ pc = "springs"
    /\ LET r == UpdateSprings(springs, 1, particles)
       IN  /\ particles' = r.ps
           /\ IF r.ok
              THEN /\ pc' = "collide"
                   /\ UNCHANGED <<last, call>>
              ELSE Return(Err(<<r.len>>), call.acc0, call.done)
    /\ UNCHANGED <<springs, boundaries, objects, edges, buckets, dt_acc,
                   pre, started>>

\* for i in 0..self.particles.len() { collide, gravity, integrate }
collide_integrate ==
    /\ pc = "collide"
    /\ LET r == CollideAndIntegrate(particles, buckets, 0)
       IN  /\ particles' = r.ps
           /\ pc' = IF r.panic THEN "panicked" ELSE "edges"
    /\ UNCHANGED <<springs, boundaries, objects, edges, buckets, dt_acc,
                   last, pre, call, started>>

\* for i in &self.boundaries { for edge in &self.edges { .. } }
edge_collisions ==
    /\ pc = "edges"
    /\ particles' = BoundaryEdges(particles, boundaries, edges, 1)
    /\ pc' = "clear"
    /\ UNCHANGED <<springs, boundaries, objects, edges, buckets, dt_acc,
                   last, pre, call, started>>

\* the end of a sub-step testing the loop condition on the accumulator as it
\* was before the decrement
end_substep_tests_first ==
    /\ pc = "clear"
    /\ buckets' = <<>>
    /\ dt_acc' = dt_acc - DT
    /\ IF dt_acc >= DT
       THEN /\ pc' = "hash"
            /\ call' = [call EXCEPT !.done = @ + 1, !.at_start = particles]
            /\ UNCHANGED last
       ELSE Return(Ok, call.acc0, call.done + 1)
    /\ UNCHANGED <<particles, springs, boundaries, objects, edges, pre,
                   started>>

\* the end of a sub-step leaving the accumulator as it is
end_substep_keeps_acc ==
    /\ pc = "clear"
    /\ buckets' = <<>>
    /\ dt_acc' = dt_acc
    /\ IF dt_acc' >= DT
       THEN /\ pc' = "hash"
            /\ call' = [call EXCEPT !.done = @ + 1, !.at_start = particles]
            /\ UNCHANGED last
       ELSE Return(Ok, call.acc0, call.done + 1)
    /\ UNCHANGED <<particles, springs, boundaries, objects, edges, pre,
                   started>>

\* the buckets are cleared, the accumulator is decremented, and the loop
\* condition is tested again
end_substep ==
    /\ pc = "clear"
    /\ buckets' = <<>>
    /\ dt_acc' = dt_acc - DT
    /\ IF dt_acc' >= DT
       THEN /\ pc' = "hash"
            /\ call' = [call EXCEPT !.done = @ + 1, !.at_start = particles]
            /\ UNCHANGED last
       ELSE Return(Ok, call.acc0, call.done + 1)
    /\ UNCHANGED <<particles, springs, boundaries, objects, edges, pre,
                   started>>

(***************************************************************************)
(* Bounds of the model and the inputs the operations are called with       *)
(***************************************************************************)
MaxParticles == 10
MaxEdges == 2
MaxAcc == 175
MaxSubSteps == 1

\* <<w, h>> offered to spawn_rect
Shapes == {<<0, 3>>, <<2, 1>>, <<2, 2>>, <<3, 2>>, <<3, 3>>}
\* corners offered to spawn_rect, in pixels
SpawnAt == {<<100, 100>>, <<110, 100>>}
\* frame times offered to end_frame, in ticks
FrameTimes == {150}
\* segments <<start, end>> offered to add_edge, in pixels
EdgeInputs == {<<<<101, 100>>, <<101, 101>>>>,
               <<<<900, 900>>, <<901, 900>>>>,
               <<<<101, 100>>, <<101, 100>>>>}

Px(p) == Vec(p[1] * U, p[2] * U)

\* the sub-steps a call of update() would start fit the budget
WithinBudget(budget) == started + (dt_acc \div DT) <= budget

(***************************************************************************)
(* The specification: every operation of World, called in any order        *)
(***************************************************************************)
Next ==
    \/ \E s \in Shapes, at \in SpawnAt :
           /\ can_spawn_rect(s[1], s[2]) =>
                  Len(particles) + s[1] * s[2] <= MaxParticles
           /\ spawn_rect(s[1], s[2], at[1] * U, at[2] * U)
           /\ UNCHANGED app
    \/ remove_last /\ UNCHANGED app
    \/ clear /\ UNCHANGED app
    \/ \E e \in EdgeInputs :
           /\ can_add_edge(Px(e[1]), Px(e[2])) => Len(edges) < MaxEdges
           /\ add_edge(Px(e[1]), Px(e[2]))
           /\ UNCHANGED app
    \/ \E dt \in FrameTimes :
           dt_acc + dt <= MaxAcc /\ end_frame(dt) /\ UNCHANGED app
    \/ WithinBudget(MaxSubSteps) /\ update_call /\ UNCHANGED app
    \/ hash_fill /\ UNCHANGED app
    \/ spring_forces /\ UNCHANGED app
    \/ collide_integrate /\ UNCHANGED app
    \/ edge_collisions /\ UNCHANGED app
    \/ end_substep /\ UNCHANGED app

Spec == Init /\ [][Next]_vars

(***************************************************************************)
(* The obstacle course: the world after World::new() and add_edge of five  *)
(* short segments in a row, 17 pixels apart, the first one pixel to the    *)
(* right of the corner the bodies are spawned at.                          *)
(***************************************************************************)
CourseSubSteps == 3
CourseAcc == 300

Course == << <<<<101, 100>>, <<101, 101>>>>,
             <<<<84, 100>>, <<84, 101>>>>,
             <<<<67, 100>>, <<67, 101>>>>,
             <<<<50, 100>>, <<50, 101>>>>,
             <<<<33, 100>>, <<33, 101>>>> >>

CourseShapes == {<<1, 2>>, <<2, 2>>, <<2, 3>>}
CourseAt == {<<100, 100>>, <<300, 100>>}

InitCourse ==
    /\ App_new
    /\ particles = <<>>
    /\ springs = <<>>
    /\ boundaries = <<>>
    /\ objects = <<>>
    /\ edges = [k \in 1..Len(Course) |->
                   Edge_new(Px(Course[k][1]), Px(Course[k][2]))]
    /\ buckets = <<>>
    /\ dt_acc = 0
    /\ pc = "idle"
    /\ last = Returned("new", <<>>, Ok)
    /\ pre = NoSnapshot
    /\ call = NoCall
    /\ started = 0

NextCourse ==
    \/ \E s \in CourseShapes, at \in CourseAt :
           /\ can_spawn_rect(s[1], s[2]) =>
                  Len(particles) + s[1] * s[2] <= MaxParticles
           /\ spawn_rect(s[1], s[2], at[1] * U, at[2] * U)
           /\ UNCHANGED app
    \/ remove_last /\ UNCHANGED app
    \/ clear /\ UNCHANGED app
    \/ \E dt \in FrameTimes :
           dt_acc + dt <= CourseAcc /\ end_frame(dt) /\ UNCHANGED app
    \/ WithinBudget(CourseSubSteps) /\ update_call /\ UNCHANGED app
    \/ hash_fill /\ UNCHANGED app
    \/ spring_forces /\ UNCHANGED app
    \/ collide_integrate /\ UNCHANGED app
    \/ edge_collisions /\ UNCHANGED app
    \/ end_substep /\ UNCHANGED app

SpecCourse == InitCourse /\ [][NextCourse]_vars

\* update() is executing its loop
InLoop == pc \in {"hash", "springs", "collide", "edges", "clear"}

\* the thread that executes the loop of update() moves on from where it is
LoopRuns ==
    /\ InLoop
    /\ pc' \in {"hash", "springs", "collide", "edges", "clear", "idle",
               "panicked"}

\* the course with update() running on: the thread that called update() is
\* never stopped inside it.  A step of NextCourse that changes pc while the
\* loop is executing is a step of the loop body, and at every position of the
\* loop the next step of the body is enabled, so weak fairness of the change
\* of pc is weak fairness of the loop body.
SpecCourseFair == SpecCourse /\ WF_pc(LoopRuns)

(***************************************************************************)
(* The application on the obstacle course: App::run calls the world from   *)
(* handle_events, update_physics and end_frame.  update() is called by     *)
(* update_physics only, which on Err goes on to clear the world.           *)
(***************************************************************************)
\* update_physics holds the Err that its call of update() has just returned
AppRecovering == pc = "idle" /\ last.op = "update" /\ ~last.ret.ok

\* update_physics dropping the last body only
update_physics_removes_last ==
    /\ AppRecovering
    /\ IF objects # <<>>
       THEN LET obj == objects[Len(objects)]
            IN  /\ objects' = SubSeq(objects, 1, Len(objects) - 1)
                /\ particles' = Truncate(particles, obj.particle_start)
                /\ springs' = Truncate(springs, obj.spring_start)
                /\ boundaries' = Truncate(boundaries, obj.boundary_start)
       ELSE UNCHANGED <<particles, springs, boundaries, objects>>
    /\ last' = Returned("update_physics", last.args, last.ret)
    /\ pre' = NoSnapshot
    /\ UNCHANGED <<edges, buckets, dt_acc, pc, call, started>>

\* the Err branch of update_physics: the message is logged, the world is
\* cleared, and update_physics returns; `last` keeps what update() returned
update_physics_recover ==
    /\ AppRecovering
    /\ particles' = <<>>
    /\ springs' = <<>>
    /\ boundaries' = <<>>
    /\ objects' = <<>>
    /\ last' = Returned("update_physics", last.args, last.ret)
    /\ pre' = NoSnapshot
    /\ UNCHANGED <<edges, buckets, dt_acc, pc, call, started>>

NextApp ==
    \/ /\ ~AppRecovering
       /\ UNCHANGED app
       /\ \/ \E s \in CourseShapes, at \in CourseAt :
                 /\ can_spawn_rect(s[1], s[2]) =>
                        Len(particles) + s[1] * s[2] <= MaxParticles
                 /\ spawn_rect(s[1], s[2], at[1] * U, at[2] * U)
          \/ remove_last
          \/ clear
          \/ \E dt \in FrameTimes : dt_acc + dt <= CourseAcc /\ end_frame(dt)
          \/ WithinBudget(CourseSubSteps) /\ update_call
    \/ update_physics_recover /\ UNCHANGED app
    \/ hash_fill /\ UNCHANGED app
    \/ spring_forces /\ UNCHANGED app
    \/ collide_integrate /\ UNCHANGED app
    \/ edge_collisions /\ UNCHANGED app
    \/ end_substep /\ UNCHANGED app

SpecApp == InitCourse /\ [][NextApp]_vars

(***************************************************************************)
(* Grids of every size: spawn_rect called with every w and h up to a       *)
(* bound, on worlds of up to MaxGridBodies bodies, with no physics.        *)
(***************************************************************************)
MaxGridW == 5
MaxGridH == 4
MaxGridBodies == 2

GridAt == <<100, 100>>

NextGrid ==
    \/ \E w \in 1..MaxGridW, h \in 1..MaxGridH :
           /\ can_spawn_rect(w, h) => Len(objects) < MaxGridBodies
           /\ spawn_rect(w, h, GridAt[1] * U, GridAt[2] * U)
           /\ UNCHANGED app
    \/ remove_last /\ UNCHANGED app
    \/ clear /\ UNCHANGED app

SpecGrid == Init /\ [][NextGrid]_vars

(***************************************************************************)
(* App::run: one frame after another.  begin_frame reads the mouse,        *)
(* handle_events handles the events polled (one action per event, any      *)
(* number of them in a frame), update_physics runs if simulate is set,     *)
(* handle_new_rect draws the preview of the rectangle being dragged,       *)
(* handle_line_manip drags and selects edge endpoints, and end_frame hands *)
(* the frame time to the world if simulate is set.  The speed factor, the  *)
(* drawing flags and the log are left out.                                 *)
(***************************************************************************)
RunSubSteps == 3
RunEdges == 1
RunBodies == 1

\* mouse positions, in pixels
MousePos == {<<100, 100>>, <<121, 121>>, <<130, 130>>}

\* the fields of App that stay as they are, `changed` excepted
AppKeeps(changed) ==
    /\ IF "simulate" \in changed THEN TRUE ELSE UNCHANGED simulate
    /\ IF "selected_edge" \in changed THEN TRUE ELSE UNCHANGED selected_edge
    /\ IF "rect_start" \in changed THEN TRUE ELSE UNCHANGED rect_start
    /\ IF "line_start" \in changed THEN TRUE ELSE UNCHANGED line_start
    /\ IF "frame" \in changed THEN TRUE ELSE UNCHANGED frame
    /\ IF "savefile" \in changed THEN TRUE ELSE UNCHANGED savefile
    /\ UNCHANGED <<mouse, lctrl, preview>>

\* a handler of App that calls nothing of the world
NoWorldCall(op) ==
    /\ pc = "idle"
    /\ last' = Returned(op, <<>>, Ok)
    /\ UNCHANGED <<world, pc, pre, call, started>>

\* let (begin, mouse, _) = self.begin_frame(), which clears the canvas, and
\* the keyboard state that handle_events reads before it polls the events
begin_frame(m, ctrl) ==
    /\ frame = "begin"
    /\ NoWorldCall("begin_frame")
    /\ mouse' = m
    /\ lctrl' = ctrl
    /\ preview' = None
    /\ frame' = "events"
    /\ UNCHANGED <<simulate, selected_edge, rect_start, line_start, savefile>>

\* KeyDown Space
key_space ==
    /\ frame = "events"
    /\ NoWorldCall("key_space")
    /\ simulate' = ~simulate
    /\ AppKeeps({"simulate"})

\* serde_json::to_string(&self.state): the world and the flag
State ==
    [particles |-> particles, springs |-> springs, boundaries |-> boundaries,
     objects |-> objects, edges |-> edges, buckets |-> buckets,
     dt_acc |-> dt_acc, simulate |-> simulate]

\* KeyDown F4
key_f4 ==
    /\ frame = "events"
    /\ NoWorldCall("key_f4")
    /\ savefile' = Some(State)
    /\ AppKeeps({"savefile"})

\* load_state leaving the selection as it was
load_state_keeps_selection(state) ==
    /\ particles' = state.particles
    /\ springs' = state.springs
    /\ boundaries' = state.boundaries
    /\ objects' = state.objects
    /\ edges' = state.edges
    /\ buckets' = state.buckets
    /\ dt_acc' = state.dt_acc
    /\ simulate' = state.simulate
    /\ UNCHANGED selected_edge

\* self.state = state; self.selected_edge = None
load_state(state) ==
    /\ particles' = state.particles
    /\ springs' = state.springs
    /\ boundaries' = state.boundaries
    /\ objects' = state.objects
    /\ edges' = state.edges
    /\ buckets' = state.buckets
    /\ dt_acc' = state.dt_acc
    /\ simulate' = state.simulate
    /\ selected_edge' = None

\* KeyDown F5 with a save file that deserializes
key_f5 ==
    /\ frame = "events"
    /\ pc = "idle"
    /\ savefile # None
    /\ load_state(savefile[1])
    /\ last' = Returned("load_state", <<>>, Ok)
    /\ pre' = NoSnapshot
    /\ UNCHANGED <<pc, call, started>>
    /\ AppKeeps({"simulate", "selected_edge"})

\* KeyDown Backspace
key_backspace ==
    /\ frame = "events"
    /\ remove_last
    /\ UNCHANGED app

\* MouseButtonDown Right at p
mouse_down_right(p) ==
    /\ frame = "events"
    /\ NoWorldCall("mouse_down_right")
    /\ IF lctrl
       THEN line_start' = Some(p) /\ rect_start' = None
       ELSE rect_start' = Some(p) /\ line_start' = None
    /\ AppKeeps({"rect_start", "line_start"})

\* the number of particles along a drag of d pixels that the release of the
\* button passes to spawn_rect: (d.abs() / Particle::SPACING) as usize + 1
CommitSize(d) == Usize(Abs(d) * U, Particle_SPACING) + 1

Min(a, b) == IF a <= b THEN a ELSE b

\* MouseButtonUp Right at p while a rectangle is being dragged
mouse_up_rect(p) ==
    /\ frame = "events"
    /\ rect_start # None
    /\ spawn_rect(CommitSize(rect_start[1][1] - p[1]),
                  CommitSize(rect_start[1][2] - p[2]),
                  Min(rect_start[1][1], p[1]) * U,
                  Min(rect_start[1][2], p[2]) * U)
    /\ rect_start' = None
    /\ AppKeeps({"rect_start"})

\* MouseButtonUp Right at p while a line is being dragged
mouse_up_line(p) ==
    /\ frame = "events"
    /\ rect_start = None
    /\ line_start # None
    /\ add_edge(Px(line_start[1]), Px(p))
    /\ line_start' = None
    /\ AppKeeps({"line_start"})

\* KeyDown Delete without modifiers
key_delete ==
    /\ frame = "events"
    /\ clear
    /\ UNCHANGED app

\* Ctrl+Delete leaving the selection as it was
key_ctrl_delete_keeps_selection ==
    /\ frame = "events"
    /\ selected_edge # None
    /\ remove_edge(selected_edge[1][1])
    /\ UNCHANGED app

\* KeyDown Delete with the left Ctrl key, an edge being selected
key_ctrl_delete ==
    /\ frame = "events"
    /\ selected_edge # None
    /\ remove_edge(selected_edge[1][1])
    /\ selected_edge' = None
    /\ AppKeeps({"selected_edge"})

\* handle_events returns true; if self.state.simulate { .. }
events_done ==
    /\ frame = "events"
    /\ NoWorldCall("handle_events")
    /\ frame' = IF simulate THEN "physics" ELSE "draw"
    /\ AppKeeps({"frame"})

\* update_physics calls self.state.world.update()
update_physics_call ==
    /\ frame = "physics"
    /\ update_call
    /\ frame' = "update"
    /\ AppKeeps({"frame"})

\* update() has returned Ok to update_physics
update_physics_ok ==
    /\ frame = "update"
    /\ pc = "idle"
    /\ last.op = "update"
    /\ last.ret.ok
    /\ last' = Returned("update_physics", last.args, last.ret)
    /\ frame' = "draw"
    /\ UNCHANGED <<world, pc, pre, call, started>>
    /\ AppKeeps({"frame"})

\* the size that handle_new_rect shows for a drag of d pixels:
\* (d.abs() / Particle::SPACING).ceil()
PreviewSize(d) == Ceil(Abs(d) * U, Particle_SPACING)

\* handle_new_rect(mouse_pos): the rectangle, its colour (valid) and the
\* text "{size.x} x {size.y}"
handle_new_rect ==
    /\ frame = "draw"
    /\ NoWorldCall("handle_new_rect")
    /\ preview' =
           IF rect_start = None THEN None
           ELSE LET w == PreviewSize(rect_start[1][1] - mouse.pos[1])
                    h == PreviewSize(rect_start[1][2] - mouse.pos[2])
                IN  Some([start |-> rect_start[1], pos |-> mouse.pos,
                          w |-> w, h |-> h, valid |-> can_spawn_rect(w, h)])
    /\ frame' = "manip"
    /\ UNCHANGED <<simulate, selected_edge, rect_start, line_start, mouse,
                   lctrl, savefile>>

\* Vec2::dist_sqr(a, mouse_pos) < Edge::R * Edge::R
Near(a, p) == VLenSqr(VSub(a, Px(p))) < Edge_R * Edge_R

\* the endpoint that the selection loop of handle_line_manip finds at p: the
\* first edge with an endpoint near p, its start before its end
EndpointAt(es, p) ==
    LET hits == {i \in 1..Len(es) :
                    Near(Edge_get_start(es[i]), p)
                        \/ Near(Edge_get_end(es[i]), p)}
    IN  IF hits = {} THEN None
        ELSE LET i == CHOOSE i \in hits : \A k \in hits : i <= k
             IN  Some(<<i - 1,
                        IF Near(Edge_get_start(es[i]), p) THEN "Start"
                        ELSE "End">>)

\* the selected edge after e.set_start(mouse_pos) or e.set_end(mouse_pos)
Dragged(e, which, p) ==
    IF which = "Start" THEN Edge_set_start(e, Px(p))
    ELSE Edge_set_end(e, Px(p))

\* handle_line_manip(mouse, mouse_pos): .nth(n).expect(..) panics when the
\* selected index is not an index of the edges
handle_line_manip ==
    /\ frame = "manip"
    /\ pc = "idle"
    /\ IF selected_edge # None /\ selected_edge[1][1] >= Len(edges)
       THEN /\ pc' = "panicked"
            /\ UNCHANGED <<edges, last, selected_edge>>
       ELSE /\ pc' = pc
            /\ IF selected_edge # None /\ mouse.left
               THEN /\ edges' =
                           [edges EXCEPT
                               ![selected_edge[1][1] + 1] =
                                   Dragged(@, selected_edge[1][2], mouse.pos)]
                    /\ last' = Returned(IF selected_edge[1][2] = "Start"
                                        THEN "set_start" ELSE "set_end",
                                        <<selected_edge[1][1], mouse.pos[1],
                                          mouse.pos[2]>>, Ok)
                    /\ UNCHANGED selected_edge
               ELSE /\ selected_edge' = EndpointAt(edges, mouse.pos)
                    /\ last' = Returned("handle_line_manip", <<>>, Ok)
                    /\ UNCHANGED edges
    /\ frame' = "end"
    /\ pre' = NoSnapshot
    /\ UNCHANGED <<particles, springs, boundaries, objects, buckets, dt_acc,
                   call, started>>
    /\ AppKeeps({"selected_edge", "frame"})

\* App::end_frame while simulate is set: the frame time goes to the world
App_end_frame_simulating(dt) ==
    /\ frame = "end"
    /\ simulate
    /\ end_frame(dt)
    /\ frame' = "begin"
    /\ AppKeeps({"frame"})

\* App::end_frame passing the frame time to the world whether or not
\* simulate is set
App_end_frame_ignores_pause ==
    /\ frame = "end"
    /\ ~simulate
    /\ \E dt \in FrameTimes : end_frame(dt)
    /\ frame' = "begin"
    /\ AppKeeps({"frame"})

\* App::end_frame while simulate is not set
App_end_frame_paused ==
    /\ frame = "end"
    /\ ~simulate
    /\ NoWorldCall("App_end_frame")
    /\ frame' = "begin"
    /\ AppKeeps({"frame"})

\* mouse positions offered while editing, in pixels
EditPos == {<<100, 100>>, <<130, 130>>}

\* the world holds no body and no save file has been written
FirstSaveOfEdges == savefile = None /\ particles = <<>>

\* editing: the simulation stays paused while lines and rectangles are
\* dragged, endpoints are selected and dragged, edges and bodies are removed
\* and the save file is written and loaded
NextEdit ==
    \/ \E p \in EditPos, left \in BOOLEAN, ctrl \in BOOLEAN :
           begin_frame([pos |-> p, left |-> left], ctrl)
    \/ FirstSaveOfEdges /\ key_f4
    \/ key_f5
    \/ \E p \in EditPos : mouse_down_right(p)
    \/ \E p \in EditPos :
           /\ Len(objects) < RunBodies
           /\ mouse_up_rect(p)
    \/ \E p \in EditPos :
           /\ (rect_start = None /\ line_start # None
                   /\ can_add_edge(Px(line_start[1]), Px(p)))
                  => Len(edges) < RunEdges
           /\ mouse_up_line(p)
    \/ key_delete
    \/ key_ctrl_delete
    \/ events_done
    \/ handle_new_rect
    \/ handle_line_manip
    \/ App_end_frame_paused

SpecEdit == Init /\ [][NextEdit]_vars

\* running: rectangles are dragged and removed and the simulation is
\* started and paused, in a world without edges
NextRun ==
    \/ \E p \in MousePos : begin_frame([pos |-> p, left |-> FALSE], FALSE)
    \/ key_space
    \/ key_backspace
    \/ \E p \in MousePos : mouse_down_right(p)
    \/ \E p \in MousePos :
           /\ Len(objects) < RunBodies
           /\ mouse_up_rect(p)
    \/ events_done
    \/ WithinBudget(RunSubSteps) /\ update_physics_call
    \/ hash_fill /\ UNCHANGED app
    \/ spring_forces /\ UNCHANGED app
    \/ collide_integrate /\ UNCHANGED app
    \/ edge_collisions /\ UNCHANGED app
    \/ end_substep /\ UNCHANGED app
    \/ update_physics_ok
    \/ handle_new_rect
    \/ handle_line_manip
    \/ \E dt \in FrameTimes : App_end_frame_simulating(dt)
    \/ App_end_frame_paused

SpecRun == Init /\ [][NextRun]_vars



(***************************************************************************)
(* Vocabulary of the properties                                            *)
(***************************************************************************)
\* the step is a whole call of the World operation op
CallOf(op) == pc = "idle" /\ pc' = "idle" /\ last'.op = op

\* the step on which update() is called
UpdateCalled == pc = "idle" /\ (pc' # "idle" \/ last'.op = "update")

\* the step on which update() returns
UpdateReturns ==
    /\ pc \in {"idle", "springs", "clear"}
    /\ pc' = "idle"
    /\ last'.op = "update"

\* the particles update() was called with, seen from a step of the call
AtCall == IF pc = "idle" THEN particles ELSE call.at_call

\* the distance between the endpoints of a spring
SpringLength(spring, ps) ==
    Isqrt(VLenSqr(VSub(ps[spring.b + 1].pos, ps[spring.a + 1].pos)))

\* the springs (by position in the spring list) whose endpoints are more
\* than five rest lengths apart
Stretched(ss, ps) ==
    {k \in 1..Len(ss) :
        /\ ~ps[ss[k].a + 1].pos.nan
        /\ ~ps[ss[k].b + 1].pos.nan
        /\ SpringLength(ss[k], ps) > STRETCH_LIMIT * ss[k].l0}

FirstOf(S) == CHOOSE k \in S : \A j \in S : k <= j

\* s is t with more appended
Extends(s, t) == Len(s) >= Len(t) /\ SubSeq(s, 1, Len(t)) = t

(***************************************************************************)
(* Creation and removal of bodies and edges                                *)
(***************************************************************************)
\* C1: when remove_last() is called right after a spawn_rect(w, h, x, y)
\* that succeeded, the world is again the world S the spawn was called in:
\* the same particles, springs, boundary indices and body descriptors, the
\* edge list and the accumulator untouched.
C1_LifoRemoval ==
    (last.op = "remove_last" /\ pre.taken) =>
        /\ particles = pre.particles
        /\ springs = pre.springs
        /\ boundaries = pre.boundaries
        /\ objects = pre.objects
        /\ edges = pre.edges
        /\ dt_acc = pre.dt_acc

\* a spawn has been undone in a world that holds an edge, time in the
\* accumulator and an earlier body that the physics has moved
C1_Witness ==
    /\ last.op = "remove_last"
    /\ pre.taken
    /\ objects # <<>>
    /\ edges # <<>>
    /\ dt_acc > 0
    /\ \E i \in 1..Len(particles) : particles[i].vel # Vec_null

\* C2: when spawn_rect(w, h, x, y) has succeeded it has appended exactly w*h
\* particles, 2w + 2h - 4 boundary indices,
\* (w-1)h + w(h-1) + 2(w-1)(h-1) springs, and one body descriptor whose
\* three ranges are exactly the ranges appended.
C2_SpawnCounts ==
    (pc = "idle" /\ last.op = "spawn_rect" /\ last.ret.ok) =>
        LET w == last.args[1]
            h == last.args[2]
        IN  /\ pre.taken
            /\ Extends(particles, pre.particles)
            /\ Extends(springs, pre.springs)
            /\ Extends(boundaries, pre.boundaries)
            /\ Len(particles) = Len(pre.particles) + w * h
            /\ Len(boundaries) = Len(pre.boundaries) + 2 * w + 2 * h - 4
            /\ Len(springs) = Len(pre.springs) + (w - 1) * h + w * (h - 1)
                                  + 2 * (w - 1) * (h - 1)
            /\ objects = Append(pre.objects,
                   [particle_start |-> Len(pre.particles),
                    particle_end |-> Len(particles),
                    spring_start |-> Len(pre.springs),
                    spring_end |-> Len(springs),
                    boundary_start |-> Len(pre.boundaries),
                    boundary_end |-> Len(boundaries)])

\* a 3 x 2 body has been spawned after another body
C2_Witness ==
    /\ pc = "idle"
    /\ last.op = "spawn_rect"
    /\ last.ret.ok
    /\ last.args[1] = 3
    /\ last.args[2] = 2
    /\ Len(objects) >= 2

\* C3: spawn_rect(w, h, x, y) with w < 2 or h < 2 returns the error that
\* carries (w, h) and leaves particles, springs, boundary indices, body
\* descriptors, edges and accumulator as they were.
C3_SpawnRejects ==
    [][(CallOf("spawn_rect") /\ (last'.args[1] < 2 \/ last'.args[2] < 2)) =>
           /\ last'.ret = Err(<<last'.args[1], last'.args[2]>>)
           /\ UNCHANGED <<particles, springs, boundaries, objects, edges,
                          dt_acc>>]_vars

\* a grid two wide and one high has been refused in a world that holds a
\* body, an edge and time in the accumulator
C3_Witness ==
    /\ last.op = "spawn_rect"
    /\ ~last.ret.ok
    /\ last.args[1] = 2
    /\ last.args[2] = 1
    /\ objects # <<>>
    /\ edges # <<>>
    /\ dt_acc > 0

\* C9: add_edge(start, end) with start = end returns an error and adds
\* nothing; with start # end it appends exactly one edge, whose get_start()
\* is start and whose get_end() is end, and leaves the earlier edges, and
\* everything else, as they were.
C9_AddEdge ==
    [][CallOf("add_edge") =>
           LET start == Vec(last'.args[1], last'.args[2])
               end == Vec(last'.args[3], last'.args[4])
           IN  IF start = end
               THEN /\ ~last'.ret.ok
                    /\ UNCHANGED <<particles, springs, boundaries, objects,
                                   edges, dt_acc>>
               ELSE /\ last'.ret.ok
                    /\ Len(edges') = Len(edges) + 1
                    /\ Extends(edges', edges)
                    /\ Edge_get_start(edges'[Len(edges')]) = start
                    /\ Edge_get_end(edges'[Len(edges')]) = end
                    /\ UNCHANGED <<particles, springs, boundaries, objects,
                                   dt_acc>>]_vars

\* a second edge, different from the first, has been added
C9_Witness ==
    /\ last.op = "add_edge"
    /\ last.ret.ok
    /\ Len(edges) = 2
    /\ edges[1] # edges[2]

\* C10: remove_last() called on a world without bodies leaves the numbers
\* of particles, springs, boundary indices and bodies at zero and the edge
\* list and the accumulator as they were.
C10_RemoveLastOnEmpty ==
    [][(CallOf("remove_last") /\ objects = <<>>) =>
           /\ Len(particles') = 0
           /\ Len(springs') = 0
           /\ Len(boundaries') = 0
           /\ Len(objects') = 0
           /\ UNCHANGED <<edges, dt_acc>>]_vars

\* remove_last() has been called on a world without bodies that holds an
\* edge and time in the accumulator
C10_Witness ==
    /\ last.op = "remove_last"
    /\ last.args = <<0>>
    /\ edges # <<>>
    /\ dt_acc > 0

(***************************************************************************)
(* update(): instability, abort, the buckets, the accumulator              *)
(***************************************************************************)
\* C4, as the specification states it: whenever update() is called while
\* some spring's endpoints are more than five rest lengths apart, it
\* returns the error that carries the length of such a spring.
C4_ErrWheneverStretched ==
    [][(UpdateReturns /\ Stretched(springs, AtCall) # {}) =>
           /\ ~last'.ret.ok
           /\ \E k \in Stretched(springs, AtCall) :
                  last'.ret.err = <<SpringLength(springs[k], AtCall)>>]_vars

\* C4, amended: whenever update() is called with the accumulator at least
\* DT while some spring's endpoints are more than five rest lengths apart,
\* it fills the buckets, moves no particle, and returns from the spring
\* phase of its first sub-step with the error that carries the length of
\* the first such spring of the spring list.
C4_ErrWhenStretchedAndStepDue ==
    [][/\ (UpdateCalled /\ dt_acc >= DT) =>
              /\ pc' = "hash"
              /\ call'.at_call = particles
              /\ call'.done = 0
       /\ (pc = "hash" /\ call.done = 0) =>
              /\ pc' = "springs"
              /\ particles' = call.at_call
              /\ UNCHANGED <<springs, call>>
       /\ (pc = "springs" /\ call.done = 0
              /\ Stretched(springs, call.at_call) # {}) =>
              LET k == FirstOf(Stretched(springs, call.at_call))
              IN  /\ pc' = "idle"
                  /\ last'.op = "update"
                  /\ last'.ret =
                         Err(<<SpringLength(springs[k], call.at_call)>>)]_vars

\* update() has returned an error from its first sub-step, so that the
\* spring was overstretched when update() was called, and the spring in
\* error is not the only one of the world
C4_Witness ==
    /\ pc = "idle"
    /\ last.op = "update"
    /\ ~last.ret.ok
    /\ last.args[2] = 0
    /\ Stretched(springs, particles) # {}
    /\ Stretched(springs, particles) # 1..Len(springs)

\* C5: when update_spring reports an error, update() returns at once: no
\* later spring has been processed, no position and no velocity differs
\* from what it was at the start of the sub-step, no bucket is touched, no
\* further sub-step is begun, and the accumulator is not decremented for
\* the aborted sub-step, while it and the particles keep what the
\* sub-steps completed earlier in the call did.
C5_ImmediateAbort ==
    [][(pc = "springs" /\ pc' = "idle") =>
           /\ last'.op = "update"
           /\ ~last'.ret.ok
           /\ Stretched(springs, particles) # {}
           /\ Len(particles') = Len(particles)
           /\ \A i \in 1..Len(particles) :
                  /\ particles'[i].pos = call.at_start[i].pos
                  /\ particles'[i].vel = call.at_start[i].vel
                  /\ (\A j \in 1..(FirstOf(Stretched(springs, particles)) - 1) :
                          springs[j].a # i - 1 /\ springs[j].b # i - 1)
                         => particles'[i].acc = particles[i].acc
           /\ dt_acc' = dt_acc
           /\ dt_acc' = call.acc0 - call.done * DT
           /\ UNCHANGED <<springs, boundaries, objects, edges, buckets,
                          started>>]_vars

\* update() has returned an error after one completed sub-step, from a
\* world in which a spring after the one in error was off its rest length
C5_Witness ==
    /\ pc = "idle"
    /\ last.op = "update"
    /\ ~last.ret.ok
    /\ last.args[2] >= 1
    /\ \E k \in 1..Len(springs) :
           /\ k > FirstOf(Stretched(springs, particles))
           /\ SpringLength(springs[k], particles) # springs[k].l0

\* C6: whatever operations have been called, every index that the
\* collision loop of update() reads from a bucket is less than the number
\* of particles.
C6_BucketIndicesInRange ==
    pc = "collide" => ~CollideAndIntegrate(particles, buckets, 0).panic

\* C7: update() begins a sub-step exactly when the accumulator is at least
\* DT, each completed sub-step subtracts exactly DT and nothing else in
\* update() changes the accumulator, so that when update() returns Ok the
\* accumulator is below DT and lower by k * DT than at the call, k being
\* the number of sub-steps completed; end_frame(dt) adds dt to the
\* accumulator and changes nothing else.
C7_FixedStep ==
    [][/\ (UpdateCalled \/ pc = "clear") =>
              (pc' = "hash" <=> dt_acc' >= DT)
       /\ pc = "clear" => dt_acc' = dt_acc - DT
       /\ (pc # "clear" /\ ~CallOf("end_frame")) => dt_acc' = dt_acc
       /\ (UpdateReturns /\ last'.ret.ok) =>
              /\ dt_acc' < DT
              /\ dt_acc' = last'.args[1] - last'.args[2] * DT
       /\ CallOf("end_frame") =>
              /\ dt_acc' = dt_acc + last'.args[1]
              /\ UNCHANGED <<particles, springs, boundaries, objects, edges,
                             buckets>>]_vars

\* update() has returned Ok after two sub-steps that moved a body, with
\* time left in the accumulator
C7_Witness ==
    /\ pc = "idle"
    /\ last.op = "update"
    /\ last.ret.ok
    /\ last.args[2] = 2
    /\ dt_acc > 0
    /\ \E i \in 1..Len(particles) : particles[i].vel # Vec_null

(***************************************************************************)
(* clear() and the recovery of the application                             *)
(***************************************************************************)
\* C11: clear() empties the particles, the springs, the boundary indices
\* and the body descriptors, and leaves the edge list as it was: the same
\* edges in the same order with the same endpoints.
C11_Clear ==
    [][CallOf("clear") =>
           /\ particles' = <<>>
           /\ springs' = <<>>
           /\ boundaries' = <<>>
           /\ objects' = <<>>
           /\ edges' = edges
           /\ \A k \in 1..Len(edges) :
                  /\ Edge_get_start(edges'[k]) = Edge_get_start(edges[k])
                  /\ Edge_get_end(edges'[k]) = Edge_get_end(edges[k])]_vars

\* clear() has been called on a world of two bodies and two different
\* edges
C11_Witness ==
    /\ pc = "idle"
    /\ last.op = "clear"
    /\ last.args = <<2>>
    /\ Len(edges) = 2
    /\ edges[1] # edges[2]

\* C12: whenever update() returns the instability error inside
\* update_physics, the next thing done to the world is the reset of all
\* bodies: update() is not called again on the failed step, no sub-step is
\* begun, and update_physics returns with no particle, spring, boundary
\* index or body left and with the edges as they were; so whenever
\* update_physics has returned after an error the world holds no body, and
\* no step of update() or of the recovery changes an edge.
C12_Recovery ==
    [][/\ (pc = "idle" /\ last.op = "update" /\ ~last.ret.ok) =>
              /\ pc' = "idle"
              /\ last'.op = "update_physics"
              /\ particles' = <<>>
              /\ springs' = <<>>
              /\ boundaries' = <<>>
              /\ objects' = <<>>
              /\ UNCHANGED <<edges, dt_acc, started>>
       /\ (pc' = "idle" /\ last'.op = "update_physics" /\ ~last'.ret.ok) =>
              /\ Len(particles') = 0
              /\ Len(springs') = 0
              /\ Len(boundaries') = 0
              /\ Len(objects') = 0
       /\ (pc # "idle" \/ UpdateCalled) => edges' = edges]_vars

\* update_physics has returned after an error of the second sub-step of
\* its update(), in a world with edges
C12_Witness ==
    /\ pc = "idle"
    /\ last.op = "update_physics"
    /\ ~last.ret.ok
    /\ last.args[2] >= 1
    /\ particles = <<>>
    /\ Len(edges) = Len(Course)

(***************************************************************************)
(* The body descriptors and the indices held by springs and boundaries     *)
(***************************************************************************)
\* the ranges [start(d), end(d)) of the descriptors ds, in order, tile 0..n
Tiles(ds, start(_), end(_), n) ==
    IF ds = <<>> THEN n = 0
    ELSE /\ start(ds[1]) = 0
         /\ \A k \in 2..Len(ds) : start(ds[k]) = end(ds[k - 1])
         /\ \A k \in 1..Len(ds) : start(ds[k]) <= end(ds[k])
         /\ end(ds[Len(ds)]) = n

\* C13: in every state that spawn_rect, remove_last, clear and update
\* lead to, the body descriptors in order partition the particles, the
\* springs and the boundary indices: the first start is 0, every start is
\* the end before it, and the last end is the length of the collection; the
\* collections are empty exactly when there is no body.
C13_DescriptorsTile ==
    /\ Tiles(objects, LAMBDA d : d.particle_start,
             LAMBDA d : d.particle_end, Len(particles))
    /\ Tiles(objects, LAMBDA d : d.spring_start,
             LAMBDA d : d.spring_end, Len(springs))
    /\ Tiles(objects, LAMBDA d : d.boundary_start,
             LAMBDA d : d.boundary_end, Len(boundaries))
    /\ objects = <<>> <=> particles = <<>>
    /\ objects = <<>> <=> springs = <<>>
    /\ objects = <<>> <=> boundaries = <<>>

\* a body has been removed from behind another one, after a sub-step of
\* update()
C13_Witness ==
    /\ pc = "idle"
    /\ last.op = "remove_last"
    /\ last.args = <<2>>
    /\ Len(objects) = 1
    /\ started >= 1

\* C14: in every state that spawn_rect, remove_last and clear lead to,
\* every spring lies in the spring range of a body whose particle range
\* holds both its endpoints, which are different; every boundary index
\* lies in the boundary range of a body whose particle range holds it; and
\* all of them are below the number of particles.
C14_IndicesValid ==
    /\ \A k \in 1..Len(springs) :
           /\ springs[k].a # springs[k].b
           /\ springs[k].a < Len(particles)
           /\ springs[k].b < Len(particles)
           /\ \E n \in 1..Len(objects) :
                  LET d == objects[n]
                  IN  /\ d.spring_start <= k - 1
                      /\ k - 1 < d.spring_end
                      /\ d.particle_start <= springs[k].a
                      /\ springs[k].a < d.particle_end
                      /\ d.particle_start <= springs[k].b
                      /\ springs[k].b < d.particle_end
    /\ \A k \in 1..Len(boundaries) :
           /\ boundaries[k] < Len(particles)
           /\ \E n \in 1..Len(objects) :
                  LET d == objects[n]
                  IN  /\ d.boundary_start <= k - 1
                      /\ k - 1 < d.boundary_end
                      /\ d.particle_start <= boundaries[k]
                      /\ boundaries[k] < d.particle_end

\* a 3 x 2 body, which has springs of all four kinds, has been spawned
\* behind another body after a sub-step of update()
C14_Witness ==
    /\ pc = "idle"
    /\ last.op = "spawn_rect"
    /\ last.ret.ok
    /\ last.args[1] = 3
    /\ last.args[2] = 2
    /\ Len(objects) = 2
    /\ started >= 1

(***************************************************************************)
(* The boundary walk of a spawned body                                     *)
(***************************************************************************)
\* spawn_rect has just returned Ok
JustSpawned == pc = "idle" /\ last.op = "spawn_rect" /\ last.ret.ok

\* the boundary indices of the body spawned last, in order
LastBoundary ==
    LET d == objects[Len(objects)]
    IN  [k \in 1..(d.boundary_end - d.boundary_start) |->
            boundaries[d.boundary_start + k]]

\* the grid place <<column, row>> of particle p of the body spawned last,
\* read from where the particle is: x grows with the column, y with the row,
\* from the corner the body was spawned at
GridPlace(p) ==
    <<(particles[p + 1].pos.x - last.args[3]) \div Particle_SPACING,
      (particles[p + 1].pos.y - last.args[4]) \div Particle_SPACING>>

\* C15: the boundary sequence written by spawn_rect(w, h, ..), w, h >= 2,
\* holds every particle of the outer ring of the grid exactly once and no
\* other particle, and every two consecutive entries, the last and the
\* first included, are orthogonal neighbours in the grid.
C15_BoundaryIsClosedWalk ==
    JustSpawned =>
        LET w == last.args[1]
            h == last.args[2]
            d == objects[Len(objects)]
            seq == LastBoundary
            n == Len(seq)
            ring == {p \in d.particle_start..(d.particle_end - 1) :
                        \/ GridPlace(p)[1] \in {0, w - 1}
                        \/ GridPlace(p)[2] \in {0, h - 1}}
        IN  /\ {seq[k] : k \in 1..n} = ring
            /\ n = Cardinality(ring)
            /\ \A k \in 1..n :
                   LET a == GridPlace(seq[k])
                       b == GridPlace(seq[(k % n) + 1])
                   IN  Abs(a[1] - b[1]) + Abs(a[2] - b[2]) = 1

\* a grid five wide and four high, which has interior particles, has been
\* spawned behind another body
C15_Witness ==
    /\ JustSpawned
    /\ last.args[1] = 5
    /\ last.args[2] = 4
    /\ Len(objects) = 2

\* the walk that starts at the corner <<0, 0>> along the left column
LeftBottomRightTop(w, h) ==
    [m \in 1..h |-> <<0, m - 1>>]
    \o [m \in 1..(w - 1) |-> <<m, h - 1>>]
    \o [m \in 1..(h - 1) |-> <<w - 1, h - 1 - m>>]
    \o [m \in 1..(w - 2) |-> <<w - 1 - m, 0>>]

\* the walk that starts at the corner <<0, 0>> along the top row
TopRightBottomLeft(w, h) ==
    [m \in 1..w |-> <<m - 1, 0>>]
    \o [m \in 1..(h - 1) |-> <<w - 1, m>>]
    \o [m \in 1..(w - 1) |-> <<w - 1 - m, h - 1>>]
    \o [m \in 1..(h - 2) |-> <<0, h - 1 - m>>]

\* the boundary of the body spawned last runs through the grid places of
\* walk, in order
BoundaryFollows(walk) ==
    /\ Len(LastBoundary) = Len(walk)
    /\ \A k \in 1..Len(walk) : GridPlace(LastBoundary[k]) = walk[k]

\* C16, as the specification states it: the boundary sequence of a
\* spawned body lists the left column from top to bottom, then the bottom
\* row, then the right column from bottom to top, then the top row.
C16_LeftColumnFirst ==
    JustSpawned => BoundaryFollows(LeftBottomRightTop(last.args[1],
                                                      last.args[2]))

\* C16, amended: the boundary sequence of a spawned body lists the top row
\* from left to right, then the right column from top to bottom, then the
\* bottom row from right to left, then the left column from bottom to top.
C16_TopRowFirst ==
    JustSpawned => BoundaryFollows(TopRightBottomLeft(last.args[1],
                                                      last.args[2]))

\* a grid three wide and four high has been spawned behind another body
C16_Witness ==
    /\ JustSpawned
    /\ last.args[1] = 3
    /\ last.args[2] = 4
    /\ Len(objects) = 2

(***************************************************************************)
(* The sub-step of update()                                                *)
(***************************************************************************)
\* C17: every bucket is empty at the start of every sub-step and whenever
\* update() is not executing, after an Ok return and after an Err return
\* alike; so after the insertion phase the buckets hold every particle
\* index exactly once and nothing else.
C17_BucketsRebuilt ==
    /\ pc \in {"idle", "hash"} => buckets = <<>>
    /\ pc = "springs" =>
           /\ Len(buckets) = Len(particles)
           /\ \A i \in 0..(Len(particles) - 1) :
                  Cardinality({k \in 1..Len(buckets) : buckets[k][2] = i}) = 1

\* position and velocity of every particle are left as they are
NothingMoves ==
    /\ Len(particles') = Len(particles)
    /\ \A i \in 1..Len(particles) :
           /\ particles'[i].pos = particles[i].pos
           /\ particles'[i].vel = particles[i].vel

\* C18: in a sub-step the buckets are filled first; then the spring forces
\* are applied, and no particle moves before the last of them is in; then
\* come the collision pass and the integration of every particle, and no
\* edge acts before the last particle is integrated; then the edges act on
\* the boundary particles; then the buckets are cleared and the accumulator
\* is decremented; and a sub-step begins only when update() is called or
\* when the sub-step before it has ended.
C18_PhaseOrder ==
    [][/\ pc = "idle" => pc' \in {"idle", "hash"}
       /\ pc' = "hash" => pc \in {"idle", "clear"}
       /\ pc = "hash" =>
              /\ pc' = "springs"
              /\ Len(buckets') = Len(buckets) + Len(particles)
              /\ UNCHANGED <<particles, dt_acc>>
       /\ pc = "springs" =>
              /\ pc' \in {"collide", "idle"}
              /\ NothingMoves
              /\ UNCHANGED <<buckets, dt_acc>>
       /\ pc = "collide" =>
              /\ pc' \in {"edges", "panicked"}
              /\ pc' = "edges" =>
                     \A i \in 1..Len(particles) : particles'[i].acc = Vec_null
              /\ UNCHANGED <<buckets, dt_acc>>
       /\ pc = "edges" =>
              /\ pc' = "clear"
              /\ \A i \in 1..Len(particles) :
                     \/ particles'[i] = particles[i]
                     \/ /\ \E k \in 1..Len(boundaries) : boundaries[k] = i - 1
                        /\ particles'[i].acc = particles[i].acc
              /\ UNCHANGED <<buckets, dt_acc>>
       /\ pc = "clear" =>
              /\ pc' \in {"hash", "idle"}
              /\ buckets' = <<>>
              /\ dt_acc' = dt_acc - DT
              /\ UNCHANGED particles]_vars

\* the second sub-step of a call of update() has filled the buckets, the
\* edges having pushed a particle far enough in the first to overstretch a
\* spring
C18_Witness ==
    /\ pc = "springs"
    /\ call.done = 1
    /\ Stretched(springs, particles) # {}

RECURSIVE CallsWith(_, _, _, _)
\* the pairs <<i, j>> that collide_bucket calls collide with over the
\* indices js from position k on, n particles existing: every index but i
\* itself, up to the first one past the end of the particles
CallsWith(i, js, k, n) ==
    IF k > Len(js) THEN <<>>
    ELSE IF js[k] = i THEN CallsWith(i, js, k + 1, n)
    ELSE IF js[k] >= n THEN <<>>
    ELSE <<<<i, js[k]>>>> \o CallsWith(i, js, k + 1, n)

RECURSIVE CollideCalls(_, _, _)
\* the pairs that the collision pass calls collide with from particle i on,
\* in order
CollideCalls(ps, bs, i) ==
    IF i >= Len(ps) THEN <<>>
    ELSE LET g == grid_pos(ps[i + 1])
             s == CollideParticle(ps, bs, i)
         IN  CallsWith(i, StencilIndices(bs, g[1], g[2]), 1, Len(ps))
                 \o (IF s.panic THEN <<>> ELSE CollideCalls(s.ps, bs, i + 1))

\* the number of times the collision pass that starts in this state calls
\* collide with the particles i and j, in either order
TimesCollided(i, j) ==
    LET calls == CollideCalls(particles, buckets, 0)
    IN  Cardinality({k \in 1..Len(calls) :
                        calls[k] = <<i, j>> \/ calls[k] = <<j, i>>})

\* the particles i and j lie in the same cell or in adjacent cells
CellsTouch(i, j) ==
    LET a == grid_pos(particles[i + 1])
        b == grid_pos(particles[j + 1])
    IN  Abs(a[1] - b[1]) <= 1 /\ Abs(a[2] - b[2]) <= 1

\* C19: in the collision pass of a sub-step, collide is called exactly once
\* with every pair of different particles that lie in the same cell or in
\* adjacent cells, and with no pair twice.
C19_EachPairOnce ==
    (pc = "collide" /\ ~CollideAndIntegrate(particles, buckets, 0).panic) =>
        \A i, j \in 0..(Len(particles) - 1) :
            i < j => /\ TimesCollided(i, j) <= 1
                     /\ CellsTouch(i, j) => TimesCollided(i, j) = 1

\* every particle's acceleration is zero
AllAccZero == \A i \in 1..Len(particles) : particles[i].acc = Vec_null

\* a sub-step has been completed in the running call and nothing has been
\* done since, or update() has returned Ok and nothing has been called since
AfterSubStep ==
    \/ pc \in {"edges", "clear"}
    \/ pc = "hash" /\ call.done >= 1
    \/ pc = "idle" /\ last.op = "update" /\ last.ret.ok

\* C20: the collision pass of a sub-step adds gravity to every particle
\* once and integrates it once, which resets its acceleration: a particle
\* that collide is not called with gains (acc + gravity) * DT of velocity,
\* once; so after every completed sub-step, and whenever update() has
\* returned Ok, every particle's acceleration is zero.
C20_AccelerationReset ==
    [][/\ (pc = "collide" /\ pc' = "edges") =>
              /\ Len(particles') = Len(particles)
              /\ \A i \in 1..Len(particles) :
                     /\ particles'[i].acc = Vec_null
                     /\ (\A j \in 0..(Len(particles) - 1) :
                             j # i - 1 => TimesCollided(i - 1, j) = 0)
                            => particles'[i].vel =
                                   VAdd(particles[i].vel,
                                        VScale(VAdd(particles[i].acc,
                                                    Vec(0, GRAVITY_Y)),
                                               VU, StepsPerSec))
       /\ AfterSubStep' => AllAccZero']_vars

\* update() has returned Ok after two sub-steps on a body of six particles
\* in free fall
C20_Witness ==
    /\ pc = "idle"
    /\ last.op = "update"
    /\ last.ret.ok
    /\ last.args[2] = 2
    /\ Len(particles) = 6
    /\ \A i \in 1..Len(particles) : particles[i].vel.y > 0

(***************************************************************************)
(* Edges under the editor                                                  *)
(***************************************************************************)
\* the step is handle_line_manip calling the setter op of the selected edge
Drags(op) == frame = "manip" /\ last'.op = op

\* the edge that the drag of this step is applied to, before and after
DraggedBefore == edges[last'.args[1] + 1]
DraggedAfter == edges'[last'.args[1] + 1]

\* the point that the drag of this step passes to the setter
DragPoint == Px(<<last'.args[2], last'.args[3]>>)

\* C21: set_start(p) makes get_start() equal p and leaves get_end() as it
\* was; set_end(p) makes get_end() equal p and leaves get_start() as it was;
\* and in every edge of the world, made by Edge::new or changed by either
\* setter, the cached squared length is the squared length of the cached
\* direction.
C21_EdgeSetters ==
    [][/\ Drags("set_start") =>
              /\ Edge_get_start(DraggedAfter) = DragPoint
              /\ Edge_get_end(DraggedAfter) = Edge_get_end(DraggedBefore)
       /\ Drags("set_end") =>
              /\ Edge_get_end(DraggedAfter) = DragPoint
              /\ Edge_get_start(DraggedAfter) = Edge_get_start(DraggedBefore)
       /\ \A k \in 1..Len(edges') :
              edges'[k].len_sqr = VLenSqr(edges'[k].line)]_vars

\* the start of an edge has been dragged to (100, 100) and the edge runs
\* from there to (130, 130)
C21_Witness ==
    /\ last.op = "set_start"
    /\ last.args = <<0, 100, 100>>
    /\ Edge_get_start(edges[1]) = Px(<<100, 100>>)
    /\ Edge_get_end(edges[1]) = Px(<<130, 130>>)

(***************************************************************************)
(* Termination of update()                                                 *)
(***************************************************************************)
\* the step ends an iteration of the loop by returning the error
ReturnsErr == pc' = "idle" /\ last'.op = "update" /\ ~last'.ret.ok

\* every step of the loop goes on with the iteration, returns the error
\* from the spring loop, or ends the iteration lowering the accumulator by DT
IterationGoesOn ==
    /\ pc = "hash" => pc' = "springs"
    /\ pc = "springs" => (pc' = "collide" \/ ReturnsErr)
    /\ pc = "collide" => pc' = "edges"
    /\ pc = "edges" => pc' = "clear"
    /\ pc = "clear" => (dt_acc' = dt_acc - DT /\ pc' \in {"hash", "idle"})

\* the sub-steps that a call has started fit the accumulator it was called
\* with, and so do the sub-steps it has completed when it returns
SubStepsFit ==
    /\ InLoop' => /\ (call'.done + 1) * DT <= call'.acc0
                  /\ dt_acc' = call'.acc0 - call'.done * DT
    /\ UpdateReturns =>
           /\ last'.args[2] <= last'.args[1] \div DT
           /\ last'.args[1] < DT => last'.args[2] = 0

\* C22 as stated: each iteration of the loop of update() either returns the
\* instability error or lowers the accumulator by exactly DT, a call that
\* starts with the accumulator at a runs at most floor(a / DT) sub-steps,
\* zero when a < DT, and every call of update() returns.
C22_UpdateReturns ==
    /\ [][IterationGoesOn /\ SubStepsFit]_vars
    /\ InLoop ~> (pc = "idle")

\* C22, the collision pass allowed to panic: an iteration that does not
\* panic returns the instability error or lowers the accumulator by exactly
\* DT, a call that starts with the accumulator at a starts at most
\* floor(a / DT) sub-steps, zero when a < DT, and every call of update()
\* leaves the loop, returning or panicking.
C22_UpdateLeavesLoop ==
    /\ [][(pc' # "panicked" => IterationGoesOn) /\ SubStepsFit]_vars
    /\ InLoop ~> (pc \in {"idle", "panicked"})

\* update() has returned Ok after the two sub-steps that the accumulator it
\* was called with, between 2 DT and 3 DT, had room for
C22_Witness ==
    /\ pc = "idle"
    /\ last.op = "update"
    /\ last.ret.ok
    /\ last.args[1] \div DT = 2
    /\ last.args[2] = 2
    /\ particles # <<>>


(***************************************************************************)
(* Length of the edges                                                     *)
(***************************************************************************)
\* C23: every edge of the world has a start that differs from its end and a
\* cached squared length above zero, after any sequence of add_edge,
\* remove_edge and drags of endpoints through set_start and set_end, so that
\* Edge::collide never divides by a squared length of zero.
C23_EdgesHaveLength ==
    \A k \in 1..Len(edges) :
        /\ ~VEq(Edge_get_start(edges[k]), Edge_get_end(edges[k]))
        /\ edges[k].len_sqr > 0


(***************************************************************************)
(* The selected edge                                                       *)
(***************************************************************************)
\* C24: whenever the selected edge is Some((n, _)), n is below the number
\* of edges, over every interleaving of selecting, dragging, Ctrl+Delete,
\* adding edges, clearing the bodies and loading the save file; the lookup
\* in handle_line_manip and remove_edge(n) never panic.
C24_SelectionInRange ==
    /\ selected_edge # None => selected_edge[1][1] < Len(edges)
    /\ pc # "panicked"

\* Ctrl+Delete has removed the selected edge, the only one: remove_edge(0)
\* has returned and neither an edge nor a selection is left
C24_Witness ==
    /\ last.op = "remove_edge"
    /\ last.args = <<0>>
    /\ edges = <<>>
    /\ selected_edge = None


(***************************************************************************)
(* The preview of a rectangle                                              *)
(***************************************************************************)
\* C25: for every start of a drag and every mouse position, the size that
\* the preview shows is the (w, h) that releasing the button at that
\* position passes to spawn_rect, and the preview is drawn as valid exactly
\* when that call of spawn_rect succeeds.
C25_PreviewIsCommit ==
    preview # None =>
        LET w == CommitSize(preview[1].start[1] - preview[1].pos[1])
            h == CommitSize(preview[1].start[2] - preview[1].pos[2])
        IN  /\ preview[1].w = w
            /\ preview[1].h = h
            /\ preview[1].valid <=> can_spawn_rect(w, h)


(***************************************************************************)
(* Paused frames                                                           *)
(***************************************************************************)
\* the particles that the world holds before and after the step are the
\* same in position, velocity and acceleration
ParticlesStay ==
    \A i \in 1..Min(Len(particles), Len(particles')) :
        particles'[i] = particles[i]

\* C26: while simulate is false no step of a frame calls World::update or
\* World::end_frame, and every step leaves the accumulator and the position,
\* velocity and acceleration of every particle as they were, so that
\* update() finds on resuming the accumulator it had when pausing.
C26_PausedFramesKeepWorld ==
    [][~simulate =>
           /\ pc' = "idle"
           /\ last'.op \notin {"update", "update_physics", "end_frame"}
           /\ dt_acc' = dt_acc
           /\ ParticlesStay]_vars

\* a frame has ended paused with sub-steps owed and a body in fall
C26_Witness ==
    /\ ~simulate
    /\ frame = "begin"
    /\ last.op = "App_end_frame"
    /\ dt_acc >= DT
    /\ \E i \in 1..Len(particles) : particles[i].vel.y > 0

=============================================================================
